---- MODULE Spec2Model ----
(***************************************************************************)
(* e2factory: the setuid-root chroot helper e2-su-2.2.                     *)
(*                                                                         *)
(* The helper is a single-shot program: main() parses argv, checks the     *)
(* chroot marker file, builds an argument vector, clears the environment,  *)
(* becomes root and replaces its image with one of four compiled-in tools. *)
(* Each invocation is a process p; its program counter pc[p] walks through *)
(* main().  Two builds of the helper exist in the tree                     *)
(* (generic/e2-su-2.2.c and global/e2-su-2.2.c); they differ in how the    *)
(* tar argument vector is built, and `variant` says which one is installed.*)
(*                                                                         *)
(* C strings are TLA+ strings (Len, \o and SubSeq work on them), C arrays  *)
(* are functions indexed from 0, and a char* slot is <<s>> or NULL.        *)
(***************************************************************************)
EXTENDS Integers, Sequences, FiniteSets, TLC

VARIABLES
    procs,        \* the invocations (processes) of the helper
    variant,      \* which build is installed: "generic" or "global"
    fs,           \* the filesystem: existing name -> "r" (caller may read) or "-"
    argc,         \* argc[p]
    argv,         \* argv[p]: 0..argc[p]-1 -> string
    envp,         \* envp[p]: the environment the process was started with
    caller,       \* caller[p]: the identity the process was started with
    env,          \* env[p]: the process environment, a set of "NAME=value"
    ident,        \* ident[p]: real/effective uid and gid, supplementary groups
    pc,           \* pc[p]: position in main()
    cmd,          \* main's local cmd
    base,         \* main's local base (the *_2_3 branches)
    path,         \* main's local path
    name,         \* the buffer name[] of assert_chroot_environment*
    arg,          \* main's local arg[]: written slots 0..k -> <<s>> or NULL
    calls,        \* calls[p]: the system calls made so far, in order
    out,          \* out[p]: the diagnostic lines written so far
    exit_status,  \* exit_status[p]: {} while running, {code} after exit(code)
    image,        \* image[p]: the program the process runs
    tool_argv,    \* tool_argv[p]: the argv the replaced image was started with
    execs,        \* execs[p]: the paths handed to execv/execvp so far, in order
    request       \* request[p]: the argv the original caller started the process with

start == <<procs, variant, envp, caller, request>>
inputs == <<start, argc, argv>>
locals == <<cmd, base, path, name, arg>>
vars == <<procs, variant, fs, argc, argv, envp, caller, env, ident, pc, cmd, base, path,
          name, arg, calls, out, exit_status, image, tool_argv,
          execs, request>>

(***************************************************************************)
(* Program constants.                                                      *)
(***************************************************************************)
PATH_MAX == 4096
ARGC_MAX == 128
ARGC_MIN == 3

\* The tools are set at build time (-DCHROOT_TOOL=...), never at run time.
chroot_tool == "/usr/sbin/chroot"
tar_tool == "/bin/tar"
chown_tool == "/bin/chown"
rm_tool == "/bin/rm"

SELF == "e2-su-2.2"

NULL == <<>>
Ptr(s) == <<s>>
UNSET == ""

Commands == {"chroot_2_2", "extract_tar_2_2", "set_permissions_2_2",
             "remove_chroot_2_2", "chroot_2_3", "extract_tar_2_3",
             "set_permissions_2_3", "remove_chroot_2_3"}

Legacy == {"chroot_2_2", "extract_tar_2_2", "set_permissions_2_2",
           "remove_chroot_2_2"}
Current == Commands \ Legacy

IsChroot(c) == c \in {"chroot_2_2", "chroot_2_3"}
IsExtractTar(c) == c \in {"extract_tar_2_2", "extract_tar_2_3"}
IsSetPermissions(c) == c \in {"set_permissions_2_2", "set_permissions_2_3"}
IsRemoveChroot(c) == c \in {"remove_chroot_2_2", "remove_chroot_2_3"}

\* The tool each branch hands to execv.
ToolOf(c) ==
    IF IsChroot(c) THEN chroot_tool
    ELSE IF IsExtractTar(c) THEN tar_tool
    ELSE IF IsSetPermissions(c) THEN chown_tool
    ELSE rm_tool

(***************************************************************************)
(* libc helpers.                                                           *)
(***************************************************************************)
\* snprintf(buf, size, "%s<suffix>", s); buf[size-1] = 0: the first size-1
\* characters of the formatted string.
snprintf(size, s) ==
    IF Len(s) > size - 1 THEN SubSeq(s, 1, size - 1) ELSE s

RECURSIVE LastSlash(_, _)
LastSlash(s, i) ==
    IF i = 0 THEN 0
    ELSE IF SubSeq(s, i, i) = "/" THEN i
    ELSE LastSlash(s, i - 1)

\* basename(3) of a path without trailing slashes.
basename(s) == SubSeq(s, LastSlash(s, Len(s)) + 1, Len(s))

\* Faulty variant: the check is decided with the effective uid.
access_R_OK_Effective(p, nm) ==
    /\ Len(nm) > 0
    /\ Len(nm) < PATH_MAX
    /\ nm \in DOMAIN fs
    /\ (fs[nm] = "r" \/ ident[p].euid = 0)

\* access(name, R_OK): decided with the REAL uid of the process.
access_R_OK(p, nm) ==
    /\ Len(nm) > 0
    /\ Len(nm) < PATH_MAX
    /\ nm \in DOMAIN fs
    /\ (fs[nm] = "r" \/ ident[p].ruid = 0)

\* The vector execv passes on: the slots before the first NULL.
ExecArgs(a) ==
    LET end == CHOOSE i \in DOMAIN a :
                   /\ a[i] = NULL
                   /\ \A j \in DOMAIN a : j < i => a[j] # NULL
    IN  [i \in 1..end |-> a[i - 1][1]]

(***************************************************************************)
(* The invocations that are tried.                                         *)
(***************************************************************************)
MaxOver == 1       \* how far argc and the path length go beyond their limits

RECURSIVE DotDirs(_)
\* "/./././." with k components: a longer spelling of the same directory.
DotDirs(k) ==
    IF k = 0 THEN ""
    ELSE LET h == DotDirs(k \div 2)
         IN  IF k % 2 = 0 THEN h \o h ELSE h \o h \o "/."

\* A directory name of exactly len characters.
LongDir(len) == SubSeq("/srv/b1" \o DotDirs(len), 1, len)

PathLens == {PATH_MAX - 18, PATH_MAX - 8} \cup
            {PATH_MAX - 1 + k : k \in 0..MaxOver}

Dirs == {"/srv/b1", "/srv/old"} \cup {LongDir(len) : len \in PathLens}

\* What is provisioned at directory d.
MarkerStates == {"nodir", "bare", "legacy", "current", "both", "unreadable"}

MkFs(d, ms) ==
    LET legacy == d \o "/emlix-chroot"
        current == d \o "/e2factory-chroot"
        files ==
            CASE ms = "nodir" -> {}
              [] ms = "bare" -> {d}
              [] ms = "legacy" -> {d, legacy}
              [] ms = "current" -> {d, current, d \o "/chroot"}
              [] ms = "both" -> {d, legacy, current, d \o "/chroot"}
              [] ms = "unreadable" -> {d, legacy, current, d \o "/chroot"}
    IN  [f \in files |->
            IF ms = "unreadable" /\ f \in {legacy, current} THEN "-" ELSE "r"]

\* char *arg[256];
ARG_SLOTS == 256

Fill(k) == [i \in 1..k |-> "arg" \o ToString(i)]

Trailings ==
    { <<>>, <<"tar">>,
      <<"tar", "a.tar">>, <<"tar.gz", "a.tgz">>, <<"tar.bz2", "a.tbz">>,
      <<"tar.xz", "file.txz">>, <<"", "a.tar">>, <<"TAR", "a.tar">>,
      <<"/bin/sh", "-c", "echo hi">> } \cup
    { Fill(ARGC_MAX - 3 + k) : k \in 0..MaxOver } \cup
    { Fill(ARG_SLOTS - 2) }

CmdNames == Commands \cup {"chroot", "remove_chroot_2_4"}

ArgvOf(seq) == [i \in 0..(Len(seq) - 1) |-> seq[i + 1]]

Argvs ==
    { ArgvOf(<<SELF>>) } \cup
    { ArgvOf(<<SELF, c>>) : c \in {"chroot_2_2", "remove_chroot_2_3"} } \cup
    { ArgvOf(<<SELF, c[1], c[2]>> \o c[3]) : c \in CmdNames \X Dirs \X Trailings }

Envs == { {}, {"LD_PRELOAD=/tmp/evil.so", "PATH=/tmp/bin"} }

\* A setuid-root binary started by an ordinary user: only the effective uid
\* is root.
CallerIdent == [ruid |-> 1000, euid |-> 0, rgid |-> 1000, egid |-> 1000,
                groups |-> {1000, 27}]

Init ==
    /\ procs = {1}
    /\ variant \in {"generic", "global"}
    /\ \E d \in Dirs, ms \in MarkerStates :
          /\ fs = MkFs(d, ms)
          /\ argv \in [procs -> {a \in Argvs : 2 \in DOMAIN a => a[2] = d}]
    /\ argc = [p \in procs |-> Cardinality(DOMAIN argv[p])]
    /\ request = argv
    /\ envp \in [procs -> Envs]
    /\ env = envp
    /\ caller = [p \in procs |-> CallerIdent]
    /\ ident = caller
    /\ pc = [p \in procs |-> "main"]
    /\ cmd = [p \in procs |-> UNSET]
    /\ base = [p \in procs |-> UNSET]
    /\ path = [p \in procs |-> UNSET]
    /\ name = [p \in procs |-> UNSET]
    /\ arg = [p \in procs |-> <<>>]
    /\ calls = [p \in procs |-> <<>>]
    /\ out = [p \in procs |-> <<>>]
    /\ exit_status = [p \in procs |-> {}]
    /\ image = [p \in procs |-> SELF]
    /\ tool_argv = [p \in procs |-> <<>>]
    /\ execs = [p \in procs |-> <<>>]

(***************************************************************************)
(* exit, puts, perror, perr.                                               *)
(***************************************************************************)
exit(p, code) ==
    /\ exit_status' = [exit_status EXCEPT ![p] = {code}]
    /\ pc' = [pc EXCEPT ![p] = "exit"]

puts(p, msg) == out' = [out EXCEPT ![p] = Append(@, msg)]

\* Faulty variant: perr leaves with exit(0).
perr_exit0(p, msg) ==
    /\ puts(p, msg)
    /\ exit(p, 0)

perr(p, msg) ==
    /\ puts(p, msg)
    /\ exit(p, 99)

goto(p, label) ==
    /\ pc' = [pc EXCEPT ![p] = label]
    /\ UNCHANGED <<out, exit_status>>

syscall(p, what) == calls' = [calls EXCEPT ![p] = Append(@, what)]

(***************************************************************************)
(* main(): argc bounds, command dispatch, arity.                           *)
(***************************************************************************)
\* Faulty variant: the upper bound is tested with >=, so argc = 128 is refused.
Main_OffByOne(p) ==
    /\ pc[p] = "main"
    /\ IF argc[p] < ARGC_MIN
         THEN perr(p, "too few arguments") /\ UNCHANGED cmd
       ELSE IF argc[p] >= ARGC_MAX
         THEN perr(p, "too many arguments") /\ UNCHANGED cmd
       ELSE /\ cmd' = [cmd EXCEPT ![p] = argv[p][1]]
            /\ goto(p, "dispatch")
    /\ UNCHANGED <<inputs, fs, env, ident, base, path, name, arg, calls,
                   image, tool_argv, execs>>

\* Faulty variant: argc has no upper bound.
Main_NoUpperBound(p) ==
    /\ pc[p] = "main"
    /\ IF argc[p] < ARGC_MIN
         THEN perr(p, "too few arguments") /\ UNCHANGED cmd
         ELSE /\ cmd' = [cmd EXCEPT ![p] = argv[p][1]]
              /\ goto(p, "dispatch")
    /\ UNCHANGED <<inputs, fs, env, ident, base, path, name, arg, calls,
                   image, tool_argv, execs>>

\* if(argc < 3) perr(...); if(argc > 128) perr(...); cmd = argv[1];
Main(p) ==
    /\ pc[p] = "main"
    /\ IF argc[p] < ARGC_MIN
         THEN perr(p, "too few arguments") /\ UNCHANGED cmd
       ELSE IF argc[p] > ARGC_MAX
         THEN perr(p, "too many arguments") /\ UNCHANGED cmd
       ELSE /\ cmd' = [cmd EXCEPT ![p] = argv[p][1]]
            /\ goto(p, "dispatch")
    /\ UNCHANGED <<inputs, fs, env, ident, base, path, name, arg, calls,
                   image, tool_argv, execs>>

\* The strcmp chain; falling through ends in perr("unknown command").
Dispatch(p) ==
    /\ pc[p] = "dispatch"
    /\ IF cmd[p] \in Commands
         THEN goto(p, "arity")
         ELSE perr(p, "unknown command")
    /\ UNCHANGED <<inputs, fs, env, ident, locals, calls, image, tool_argv, execs>>

\* Faulty variant: extract_tar accepts any argc of at least 5.
ArityOk_AtLeast(c, n) ==
    IF IsChroot(c) THEN ~(n < 3)
    ELSE IF IsExtractTar(c) THEN ~(n < 5)
    ELSE ~(n # 3)

\* Faulty variant: an enter command must name a command to run, argc >= 4.
ArityOk_NeedsCommand(c, n) ==
    IF IsChroot(c) THEN ~(n < 4)
    ELSE IF IsExtractTar(c) THEN ~(n # 5)
    ELSE ~(n # 3)

ArityOk(c, n) ==
    IF IsChroot(c) THEN ~(n < 3)
    ELSE IF IsExtractTar(c) THEN ~(n # 5)
    ELSE ~(n # 3)

ArityMsg(c) ==
    IF IsChroot(c) THEN "too few arguments" ELSE "wrong number of arguments"

\* The arity check at the head of each branch, then the locals that are
\* set before the marker check: path = argv[2] (legacy), base = argv[2]
\* (current); chroot_2_3 formats path before the check, the other *_2_3
\* branches after it.
Arity(p) ==
    /\ pc[p] = "arity"
    /\ IF ~ArityOk(cmd[p], argc[p])
         THEN perr(p, ArityMsg(cmd[p])) /\ UNCHANGED <<base, path>>
       ELSE /\ goto(p, "assert")
            /\ IF cmd[p] \in Legacy
                 THEN /\ path' = [path EXCEPT ![p] = argv[p][2]]
                      /\ UNCHANGED base
                 ELSE /\ base' = [base EXCEPT ![p] = argv[p][2]]
                      /\ IF cmd[p] = "chroot_2_3"
                           THEN path' = [path EXCEPT ![p] =
                                    snprintf(PATH_MAX, argv[p][2] \o "/chroot")]
                           ELSE UNCHANGED path
    /\ UNCHANGED <<inputs, fs, env, ident, cmd, name, arg, calls, image,
                   tool_argv, execs>>

(***************************************************************************)
(* The marker check.                                                       *)
(***************************************************************************)
\* Faulty variant: a missing marker is repaired (created) instead of being
\* reported.
assert_chroot_environment_Repair(p) ==
    /\ pc[p] = "assert"
    /\ cmd[p] \in Legacy
    /\ LET nm == snprintf(PATH_MAX, path[p] \o "/emlix-chroot")
       IN  /\ name' = [name EXCEPT ![p] = nm]
           /\ syscall(p, "access")
           /\ fs' = [f \in DOMAIN fs \cup {nm} |->
                        IF f \in DOMAIN fs THEN fs[f] ELSE "r"]
           /\ goto(p, "build")
    /\ UNCHANGED <<inputs, env, ident, cmd, base, path, arg, image,
                   tool_argv, execs>>

\* Faulty variant: the broker waits for a missing marker to be provisioned.
assert_chroot_environment_Wait(p) ==
    /\ pc[p] = "assert"
    /\ cmd[p] \in Legacy
    /\ LET nm == snprintf(PATH_MAX, path[p] \o "/emlix-chroot")
       IN  /\ access_R_OK(p, nm)
           /\ name' = [name EXCEPT ![p] = nm]
           /\ syscall(p, "access")
           /\ goto(p, "build")
    /\ UNCHANGED <<inputs, fs, env, ident, cmd, base, path, arg, image,
                   tool_argv, execs>>

\* assert_chroot_environment(path): the legacy layout, <path>/emlix-chroot.
assert_chroot_environment(p) ==
    /\ pc[p] = "assert"
    /\ cmd[p] \in Legacy
    /\ LET nm == snprintf(PATH_MAX, path[p] \o "/emlix-chroot")
       IN  /\ name' = [name EXCEPT ![p] = nm]
           /\ syscall(p, "access")
           /\ IF ~access_R_OK(p, nm)
                THEN perr(p, "not a chroot environment")
                ELSE goto(p, "build")
    /\ UNCHANGED <<inputs, fs, env, ident, cmd, base, path, arg, image,
                   tool_argv, execs>>

\* assert_chroot_environment_2_3(base): <base>/e2factory-chroot.
assert_chroot_environment_2_3(p) ==
    /\ pc[p] = "assert"
    /\ cmd[p] \in Current
    /\ LET nm == snprintf(PATH_MAX, base[p] \o "/e2factory-chroot")
       IN  /\ name' = [name EXCEPT ![p] = nm]
           /\ syscall(p, "access")
           /\ IF ~access_R_OK(p, nm)
                THEN perr(p, "not a chroot environment")
                ELSE goto(p, "build")
    /\ UNCHANGED <<inputs, fs, env, ident, cmd, base, path, arg, image,
                   tool_argv, execs>>

(***************************************************************************)
(* The argument vectors.  print_arg(arg) prints nothing unless DEBUG is    *)
(* defined at compile time, and it is not: it is no step of the model.     *)
(***************************************************************************)
\* The operational path of a branch at the point where arg[] is filled:
\* the legacy branches and chroot_2_3 have it already, the other *_2_3
\* branches format it right after the marker check.
PathOf(p) ==
    IF cmd[p] \in Legacy \/ cmd[p] = "chroot_2_3"
      THEN path[p]
      ELSE snprintf(PATH_MAX, base[p] \o "/chroot")

\* Faulty variant: the copy loop reads argv[i-1].
ChrootArg_OffByOne(pth, ac, av) ==
    [i \in 0..(ac - 1) |->
        IF i = 0 THEN Ptr(basename(chroot_tool))
        ELSE IF i = 1 THEN Ptr(pth)
        ELSE IF i < ac - 1 THEN Ptr(av[i])
        ELSE NULL]

\* arg[0] = basename(chroot_tool); arg[1] = path;
\* for (i=3; i < argc; i++) arg[i-1] = argv[i];  arg[i-1] = 0;
ChrootArg(pth, ac, av) ==
    [i \in 0..(ac - 1) |->
        IF i = 0 THEN Ptr(basename(chroot_tool))
        ELSE IF i = 1 THEN Ptr(pth)
        ELSE IF i < ac - 1 THEN Ptr(av[i + 1])
        ELSE NULL]

BuildChroot(p) ==
    /\ pc[p] = "build"
    /\ IsChroot(cmd[p])
    /\ arg' = [arg EXCEPT ![p] = ChrootArg(path[p], argc[p], argv[p])]
    /\ goto(p, "clearenv")
    /\ UNCHANGED <<inputs, fs, env, ident, cmd, base, path, name, calls,
                   image, tool_argv, execs>>

\* Faulty variant: an unknown kind is taken as a plain archive.
TarTypes_Lenient == {"tar.gz", "tar.bz2", "tar", "tar.xz", "", "TAR"}

TarTypes == {"tar.gz", "tar.bz2", "tar"}

\* generic/e2-su-2.2.c: one combined flag, arg[3] = tararg.
TarArgGeneric(pth, tartype, file) ==
    LET tararg == IF tartype = "tar.gz" THEN "-xzf"
                  ELSE IF tartype = "tar.bz2" THEN "-xjf"
                  ELSE "-xf"
    IN  ArgvOf(<<Ptr(basename(tar_tool)), Ptr("-C"), Ptr(pth), Ptr(tararg),
                 Ptr(file), NULL>>)

\* Faulty variant: the decompression flag is stored after "-xf".
TarArgGlobal_FlagLast(pth, tartype, file) ==
    LET flag == IF tartype = "tar.gz" THEN <<Ptr("--gzip")>>
                ELSE IF tartype = "tar.bz2" THEN <<Ptr("--bzip2")>>
                ELSE <<>>
    IN  ArgvOf(<<Ptr(basename(tar_tool)), Ptr("-C"), Ptr(pth), Ptr("-xf")>>
               \o flag \o <<Ptr(file), NULL>>)

\* global/e2-su-2.2.c: arg[n++] = "--gzip" or "--bzip2" or nothing, then
\* arg[n++] = "-xf"; arg[n++] = file; arg[n++] = NULL.
TarArgGlobal(pth, tartype, file) ==
    LET flag == IF tartype = "tar.gz" THEN <<Ptr("--gzip")>>
                ELSE IF tartype = "tar.bz2" THEN <<Ptr("--bzip2")>>
                ELSE <<>>
    IN  ArgvOf(<<Ptr(basename(tar_tool)), Ptr("-C"), Ptr(pth)>> \o flag \o
               <<Ptr("-xf"), Ptr(file), NULL>>)

TarArg(v, pth, tartype, file) ==
    IF v = "generic" THEN TarArgGeneric(pth, tartype, file)
    ELSE TarArgGlobal(pth, tartype, file)

BuildExtractTar(p) ==
    /\ pc[p] = "build"
    /\ IsExtractTar(cmd[p])
    /\ path' = [path EXCEPT ![p] = PathOf(p)]
    /\ LET tartype == argv[p][3]
           file == argv[p][4]
       IN  IF tartype \in TarTypes
             THEN /\ arg' = [arg EXCEPT ![p] =
                                TarArg(variant, PathOf(p), tartype, file)]
                  /\ goto(p, "clearenv")
             ELSE /\ perr(p, "wrong tararg argument")
                  /\ UNCHANGED arg
    /\ UNCHANGED <<inputs, fs, env, ident, cmd, base, name, calls, image,
                   tool_argv, execs>>

\* arg[0] = basename(chown_tool); arg[1] = "root:root"; arg[2] = path;
ChownArg(pth) ==
    ArgvOf(<<Ptr(basename(chown_tool)), Ptr("root:root"), Ptr(pth), NULL>>)

BuildSetPermissions(p) ==
    /\ pc[p] = "build"
    /\ IsSetPermissions(cmd[p])
    /\ path' = [path EXCEPT ![p] = PathOf(p)]
    /\ arg' = [arg EXCEPT ![p] = ChownArg(PathOf(p))]
    /\ goto(p, "clearenv")
    /\ UNCHANGED <<inputs, fs, env, ident, cmd, base, name, calls, image,
                   tool_argv, execs>>

\* Faulty variant: "-f" is left out.
RmArg_NoForce(pth) ==
    ArgvOf(<<Ptr(basename(rm_tool)), Ptr("-r"), Ptr(pth), NULL>>)

\* arg[0] = basename(rm_tool); arg[1] = "-r"; arg[2] = "-f"; arg[3] = path;
RmArg(pth) ==
    ArgvOf(<<Ptr(basename(rm_tool)), Ptr("-r"), Ptr("-f"), Ptr(pth), NULL>>)

BuildRemoveChroot(p) ==
    /\ pc[p] = "build"
    /\ IsRemoveChroot(cmd[p])
    /\ path' = [path EXCEPT ![p] = PathOf(p)]
    /\ arg' = [arg EXCEPT ![p] = RmArg(PathOf(p))]
    /\ goto(p, "clearenv")
    /\ UNCHANGED <<inputs, fs, env, ident, cmd, base, name, calls, image,
                   tool_argv, execs>>

(***************************************************************************)
(* setuid_root() and execv.  Whether a system call succeeds is the         *)
(* kernel's decision: rc = 0 or rc = -1.                                   *)
(***************************************************************************)
RC == {0, -1}

perror(p, msg) == puts(p, msg)

\* Faulty variant: the result of clearenv() is ignored.
Clearenv_Unchecked(p) ==
    /\ pc[p] = "clearenv"
    /\ syscall(p, "clearenv")
    /\ \E rc \in RC :
          /\ env' = [env EXCEPT ![p] = IF rc # 0 THEN @ ELSE {}]
          /\ goto(p, "setuid")
    /\ UNCHANGED <<inputs, fs, ident, locals, image, tool_argv, execs>>

\* rc = clearenv(); if(rc != 0) { perror(...); exit(99); }
Clearenv(p) ==
    /\ pc[p] = "clearenv"
    /\ syscall(p, "clearenv")
    /\ \E rc \in RC :
          IF rc # 0
            THEN /\ perror(p, "can't clearenv()") /\ exit(p, 99)
                 /\ UNCHANGED env
            ELSE /\ env' = [env EXCEPT ![p] = {}]
                 /\ goto(p, "setuid")
    /\ UNCHANGED <<inputs, fs, ident, locals, image, tool_argv, execs>>

\* rc = setuid(0);
Setuid(p) ==
    /\ pc[p] = "setuid"
    /\ syscall(p, "setuid")
    /\ \E rc \in RC :
          IF rc # 0
            THEN /\ perror(p, "can't setuid(0)") /\ exit(p, 99)
                 /\ UNCHANGED ident
            ELSE /\ ident' = [ident EXCEPT ![p].ruid = 0, ![p].euid = 0]
                 /\ goto(p, "setgid")
    /\ UNCHANGED <<inputs, fs, env, locals, image, tool_argv, execs>>

\* Faulty variant: a failing setgid(0) is reported but main() carries on.
Setgid_Unchecked(p) ==
    /\ pc[p] = "setgid"
    /\ syscall(p, "setgid")
    /\ \E rc \in RC :
          IF rc # 0
            THEN /\ perror(p, "can't setgid(0)")
                 /\ pc' = [pc EXCEPT ![p] = "setgroups"]
                 /\ UNCHANGED <<ident, exit_status>>
            ELSE /\ ident' = [ident EXCEPT ![p].rgid = 0, ![p].egid = 0]
                 /\ goto(p, "setgroups")
    /\ UNCHANGED <<inputs, fs, env, locals, image, tool_argv, execs>>

\* rc = setgid(0);
Setgid(p) ==
    /\ pc[p] = "setgid"
    /\ syscall(p, "setgid")
    /\ \E rc \in RC :
          IF rc # 0
            THEN /\ perror(p, "can't setgid(0)") /\ exit(p, 99)
                 /\ UNCHANGED ident
            ELSE /\ ident' = [ident EXCEPT ![p].rgid = 0, ![p].egid = 0]
                 /\ goto(p, "setgroups")
    /\ UNCHANGED <<inputs, fs, env, locals, image, tool_argv, execs>>

\* rc = setgroups(0, NULL);
Setgroups(p) ==
    /\ pc[p] = "setgroups"
    /\ syscall(p, "setgroups")
    /\ \E rc \in RC :
          IF rc # 0
            THEN /\ perror(p, "can't setgroups()") /\ exit(p, 99)
                 /\ UNCHANGED ident
            ELSE /\ ident' = [ident EXCEPT ![p].groups = {}]
                 /\ goto(p, "execv")
    /\ UNCHANGED <<inputs, fs, env, locals, image, tool_argv, execs>>

\* Faulty variant: a failed execv is tried a second time before giving up.
Execv_Retry(p) ==
    /\ pc[p] = "execv"
    /\ syscall(p, "execv")
    /\ execs' = [execs EXCEPT ![p] = Append(@, ToolOf(cmd[p]))]
    /\ \E rc \in RC :
          IF rc # 0
            THEN /\ IF "execv" \in {calls[p][i] : i \in DOMAIN calls[p]}
                      THEN perror(p, "can't exec") /\ exit(p, 99)
                      ELSE goto(p, "execv")
                 /\ UNCHANGED <<image, tool_argv>>
            ELSE /\ image' = [image EXCEPT ![p] = ToolOf(cmd[p])]
                 /\ tool_argv' = [tool_argv EXCEPT ![p] = ExecArgs(arg[p])]
                 /\ goto(p, "tool")
    /\ UNCHANGED <<inputs, fs, env, ident, locals>>

\* Faulty variant: when execv fails, the tool is looked for in /usr/bin.
Execv_Fallback(p) ==
    /\ pc[p] = "execv"
    /\ \E rc \in RC :
          IF rc # 0
            THEN LET alt == "/usr/bin/" \o basename(ToolOf(cmd[p]))
                 IN  /\ calls' = [calls EXCEPT
                                    ![p] = Append(Append(@, "execv"), "execv")]
                     /\ execs' = [execs EXCEPT
                                    ![p] = Append(Append(@, ToolOf(cmd[p])), alt)]
                     /\ perror(p, "can't exec") /\ exit(p, 99)
                     /\ UNCHANGED <<image, tool_argv>>
            ELSE /\ syscall(p, "execv")
                 /\ execs' = [execs EXCEPT ![p] = Append(@, ToolOf(cmd[p]))]
                 /\ image' = [image EXCEPT ![p] = ToolOf(cmd[p])]
                 /\ tool_argv' = [tool_argv EXCEPT ![p] = ExecArgs(arg[p])]
                 /\ goto(p, "tool")
    /\ UNCHANGED <<inputs, fs, env, ident, locals>>

\* Faulty variant: the image is replaced under mutual exclusion; an
\* invocation waits while another one is between its marker check and its
\* exec.
Execv_Serialized(p) ==
    /\ pc[p] = "execv"
    /\ \A q \in procs \ {p} :
          pc[q] \notin {"build", "clearenv", "setuid", "setgid", "setgroups",
                        "execv"}
    /\ syscall(p, "execv")
    /\ execs' = [execs EXCEPT ![p] = Append(@, ToolOf(cmd[p]))]
    /\ \E rc \in RC :
          IF rc # 0
            THEN /\ perror(p, "can't exec") /\ exit(p, 99)
                 /\ UNCHANGED <<image, tool_argv>>
            ELSE /\ image' = [image EXCEPT ![p] = ToolOf(cmd[p])]
                 /\ tool_argv' = [tool_argv EXCEPT ![p] = ExecArgs(arg[p])]
                 /\ goto(p, "tool")
    /\ UNCHANGED <<inputs, fs, env, ident, locals>>

\* Faulty variant: the tool is looked up along the PATH the process was
\* started with instead of by its compiled-in absolute path.
Execv_FromPath(p) ==
    /\ pc[p] = "execv"
    /\ syscall(p, "execv")
    /\ LET tool == IF "PATH=/tmp/bin" \in envp[p]
                     THEN "/tmp/bin/" \o basename(ToolOf(cmd[p]))
                     ELSE ToolOf(cmd[p])
       IN  /\ execs' = [execs EXCEPT ![p] = Append(@, tool)]
           /\ \E rc \in RC :
                 IF rc # 0
                   THEN /\ perror(p, "can't exec") /\ exit(p, 99)
                        /\ UNCHANGED <<image, tool_argv>>
                   ELSE /\ image' = [image EXCEPT ![p] = tool]
                        /\ tool_argv' = [tool_argv EXCEPT
                                            ![p] = ExecArgs(arg[p])]
                        /\ goto(p, "tool")
    /\ UNCHANGED <<inputs, fs, env, ident, locals>>

\* execv(tool, arg); perror("can't exec"); exit(99);
\* On success the process IS the tool and main() never continues.
Execv(p) ==
    /\ pc[p] = "execv"
    /\ syscall(p, "execv")
    /\ execs' = [execs EXCEPT ![p] = Append(@, ToolOf(cmd[p]))]
    /\ \E rc \in RC :
          IF rc # 0
            THEN /\ perror(p, "can't exec") /\ exit(p, 99)
                 /\ UNCHANGED <<image, tool_argv>>
            ELSE /\ image' = [image EXCEPT ![p] = ToolOf(cmd[p])]
                 /\ tool_argv' = [tool_argv EXCEPT ![p] = ExecArgs(arg[p])]
                 /\ goto(p, "tool")
    /\ UNCHANGED <<inputs, fs, env, ident, locals>>

Next ==
    \/ \E p \in procs : Main(p)
    \/ \E p \in procs : Dispatch(p)
    \/ \E p \in procs : Arity(p)
    \/ \E p \in procs : assert_chroot_environment(p)
    \/ \E p \in procs : assert_chroot_environment_2_3(p)
    \/ \E p \in procs : BuildChroot(p)
    \/ \E p \in procs : BuildExtractTar(p)
    \/ \E p \in procs : BuildSetPermissions(p)
    \/ \E p \in procs : BuildRemoveChroot(p)
    \/ \E p \in procs : Clearenv(p)
    \/ \E p \in procs : Setuid(p)
    \/ \E p \in procs : Setgid(p)
    \/ \E p \in procs : Setgroups(p)
    \/ \E p \in procs : Execv(p)

Spec == Init /\ [][Next]_vars

(***************************************************************************)
(* Properties.                                                             *)
(***************************************************************************)
Range(f) == {f[i] : i \in DOMAIN f}

Running == {"main", "dispatch", "arity", "assert", "build", "clearenv",
            "setuid", "setgid", "setgroups", "execv"}

PrivilegeCalls == {"setuid", "setgid", "setgroups"}

\* An invocation that names one of the eight commands.
Names(p, c) == argc[p] >= 2 /\ argv[p][1] = c
NamesCommand(p) == argc[p] >= 3 /\ argv[p][1] \in Commands

\* The marker of the layout the command belongs to, for the path given.
MarkerSuffix(c) ==
    IF c \in Legacy THEN "/emlix-chroot" ELSE "/e2factory-chroot"
MarkerName(p) == argv[p][2] \o MarkerSuffix(argv[p][1])
MarkerReadable(p) ==
    /\ MarkerName(p) \in DOMAIN fs
    /\ (fs[MarkerName(p)] = "r" \/ caller[p].ruid = 0)

\* C1: the image is replaced by a tool only in an invocation whose
\* layout-appropriate marker (<path>/emlix-chroot for *_2_2,
\* <base>/e2factory-chroot for *_2_3) is present and readable; without it
\* the helper makes no privilege change and ends in exit 99.
C1_ExecOnlyWithMarker ==
    \A p \in procs :
        (NamesCommand(p) /\ ~MarkerReadable(p)) =>
            /\ image[p] = SELF
            /\ Range(calls[p]) \subseteq {"access"}
            /\ ident[p] = caller[p]
            /\ pc[p] = "exit" => exit_status[p] = {99}

\* The arity the claim declares for each command.
DeclaredShape(c, n) ==
    CASE IsExtractTar(c) -> n = 5
      [] IsSetPermissions(c) \/ IsRemoveChroot(c) -> n = 3
      [] IsChroot(c) -> n >= 3

\* C2: an argument count that does not match the declared shape of the
\* command ends in exit 99 with no system call made at all: the marker is
\* not accessed, the environment and the identity are untouched, nothing
\* is executed.
C2_BadArityRejectedFirst ==
    \A p \in procs :
        (argc[p] >= 2 /\ argv[p][1] \in Commands
         /\ ~DeclaredShape(argv[p][1], argc[p])) =>
            /\ calls[p] = <<>>
            /\ name[p] = UNSET
            /\ env[p] = envp[p]
            /\ ident[p] = caller[p]
            /\ image[p] = SELF
            /\ pc[p] \in {"main", "dispatch", "arity", "exit"}
            /\ pc[p] = "exit" => exit_status[p] = {99}

C2_Witness ==
    \E p \in procs :
        /\ Names(p, "extract_tar_2_3") /\ argc[p] = 4
        /\ fs # << >> /\ MarkerReadable(p)
        /\ pc[p] = "exit"
        /\ out[p] = <<"wrong number of arguments">>

\* calls[p] without the marker check.
AfterCheck(p) == SelectSeq(calls[p], LAMBDA c : c # "access")

IsPrefix(s, t) == Len(s) <= Len(t) /\ s = SubSeq(t, 1, Len(s))

\* C3: the steps are clearenv, setuid, setgid, setgroups, execv in this
\* order; the environment is empty from the first identity change on and
\* when the image is replaced; nothing of these precedes clearenv.
C3_ClearenvFirst ==
    \A p \in procs :
        /\ IsPrefix(AfterCheck(p),
                    <<"clearenv", "setuid", "setgid", "setgroups", "execv">>)
        /\ (Range(calls[p]) \cap (PrivilegeCalls \cup {"execv"}) # {}
              => env[p] = {})
        /\ (ident[p] # caller[p] => env[p] = {})
        /\ (image[p] # SELF =>
              /\ env[p] = {}
              /\ AfterCheck(p) =
                   <<"clearenv", "setuid", "setgid", "setgroups", "execv">>)

C3_Witness ==
    \E p \in procs :
        /\ envp[p] # {}
        /\ image[p] = chroot_tool
        /\ env[p] = {}
        /\ ident[p].ruid = 0 /\ ident[p].rgid = 0 /\ ident[p].groups = {}

\* C4: the marker check comes before every privilege change and is decided
\* with the identity the helper was started with: an invocation gets past
\* the check only if that identity may read the name checked.
C4_CheckBeforePrivilege ==
    \A p \in procs :
        /\ (Range(calls[p]) \cap (PrivilegeCalls \cup {"clearenv", "execv"})
              # {} => Head(calls[p]) = "access")
        /\ (pc[p] \in {"main", "dispatch", "arity", "assert", "build"}
              => ident[p] = caller[p])
        /\ (pc[p] \in {"build", "clearenv", "setuid", "setgid", "setgroups",
                       "execv", "tool"} =>
              /\ name[p] \in DOMAIN fs
              /\ (fs[name[p]] = "r" \/ caller[p].ruid = 0))

C4_Witness ==
    \E p \in procs :
        /\ Names(p, "chroot_2_2")
        /\ name[p] \in DOMAIN fs /\ fs[name[p]] = "-"
        /\ caller[p].ruid # 0 /\ caller[p].euid = 0
        /\ calls[p] = <<"access">>
        /\ pc[p] = "exit"
        /\ out[p] = <<"not a chroot environment">>

\* b is the last component of the absolute path full.
IsBasenameOf(b, full) ==
    LET cut == Len(full) - Len(b)
    IN  /\ Len(b) > 0 /\ cut > 0
        /\ SubSeq(full, cut + 1, Len(full)) = b
        /\ SubSeq(full, cut, cut) = "/"
        /\ \A i \in 1..Len(b) : SubSeq(b, i, i) # "/"

\* The sandbox root of an invocation: the path given (legacy layout), the
\* path the branch derived from the base (current layout).
SandboxRoot(p) == IF argv[p][1] \in Legacy THEN argv[p][2] ELSE path[p]

\* A base short enough for every name derived from it to fit PATH_MAX.
ShortBase(p) == Len(argv[p][2]) + Len("/e2factory-chroot") < PATH_MAX

Replaced(p, c) == argc[p] >= 3 /\ argv[p][1] = c /\ pc[p] = "tool"

PathSlot(c) ==
    CASE IsChroot(c) -> 2
      [] IsExtractTar(c) -> 3
      [] IsSetPermissions(c) -> 3
      [] IsRemoveChroot(c) -> 4

\* C6: in every current-layout command the path handed to the tool is
\* <base>/chroot, never the base itself, and the marker checked is
\* <base>/e2factory-chroot.
C6_CurrentLayoutRoot ==
    \A p \in procs :
        (NamesCommand(p) /\ argv[p][1] \in Current /\ pc[p] = "tool") =>
            /\ name[p] = argv[p][2] \o "/e2factory-chroot"
            /\ tool_argv[p][PathSlot(argv[p][1])] = argv[p][2] \o "/chroot"
            /\ tool_argv[p][PathSlot(argv[p][1])] # argv[p][2]

\* What the archive tool is told to do, from the flags between the
\* directory and the archive file.
Extraction(v) ==
    LET flags == {v[i] : i \in 4..(Len(v) - 1)}
        gz == flags \cap {"--gzip", "-xzf"} # {}
        bz == flags \cap {"--bzip2", "-xjf"} # {}
    IN  IF gz /\ bz THEN "both"
        ELSE IF gz THEN "gzip"
        ELSE IF bz THEN "bzip2"
        ELSE "plain"

IsExtractCall(p) == argc[p] = 5 /\ IsExtractTar(argv[p][1])

\* C7: the archive kind is accepted only as "tar", "tar.gz" or "tar.bz2",
\* selecting plain, gzip and bzip2; with any other string the invocation
\* makes no call after the marker check, changes nothing and ends in exit
\* 99, and the archive tool is never started.
C7_ArchiveKind ==
    \A p \in procs :
        IsExtractCall(p) =>
            /\ argv[p][3] \notin {"tar", "tar.gz", "tar.bz2"} =>
                  /\ Range(calls[p]) \subseteq {"access"}
                  /\ env[p] = envp[p]
                  /\ ident[p] = caller[p]
                  /\ image[p] = SELF
                  /\ arg[p] = <<>>
                  /\ pc[p] \in {"main", "dispatch", "arity", "assert",
                                "build", "exit"}
                  /\ pc[p] = "exit" =>
                        /\ exit_status[p] = {99}
                        /\ out[p] \in {<<"not a chroot environment">>,
                                       <<"wrong tararg argument">>}
            /\ pc[p] = "tool" =>
                  /\ image[p] = tar_tool
                  /\ Extraction(tool_argv[p]) =
                       CASE argv[p][3] = "tar" -> "plain"
                         [] argv[p][3] = "tar.gz" -> "gzip"
                         [] argv[p][3] = "tar.bz2" -> "bzip2"

C7_Witness ==
    \E p \in procs :
        /\ Names(p, "extract_tar_2_3") /\ argc[p] = 5
        /\ argv[p][2] = "/srv/b1" /\ argv[p][3] = "tar.xz"
        /\ calls[p] = <<"access">>
        /\ pc[p] = "exit" /\ exit_status[p] = {99}
        /\ out[p] = <<"wrong tararg argument">>

Step(p) ==
    \/ Main(p) \/ Dispatch(p) \/ Arity(p)
    \/ assert_chroot_environment(p) \/ assert_chroot_environment_2_3(p)
    \/ BuildChroot(p) \/ BuildExtractTar(p)
    \/ BuildSetPermissions(p) \/ BuildRemoveChroot(p)
    \/ Clearenv(p) \/ Setuid(p) \/ Setgid(p) \/ Setgroups(p) \/ Execv(p)

\* C10: an invocation ends either replaced by a tool or in exit 99; the
\* helper itself never exits with 0 or any other code.
C10_OnlyExit99 ==
    \A p \in procs :
        /\ exit_status[p] \subseteq {99}
        /\ pc[p] = "exit" <=> exit_status[p] = {99}
        /\ ~ENABLED Step(p) => pc[p] \in {"exit", "tool"}
        /\ pc[p] = "tool" <=> image[p] # SELF

C10_Witness ==
    \E p \in procs :
        /\ pc[p] = "exit" /\ exit_status[p] = {99}
        /\ out[p] = <<"can't exec">>
        /\ calls[p] = <<"access", "clearenv", "setuid", "setgid",
                        "setgroups", "execv">>

(***************************************************************************)
(* C11.  setuid_root() is all or nothing.                                  *)
(***************************************************************************)
\* The message setuid_root() prints for a failing step, by step.
FailureMessage(step) ==
    CASE step = "clearenv"  -> "can't clearenv()"
      [] step = "setuid"    -> "can't setuid(0)"
      [] step = "setgid"    -> "can't setgid(0)"
      [] step = "setgroups" -> "can't setgroups()"

SetuidRootSteps == <<"clearenv", "setuid", "setgid", "setgroups">>

Last(s) == s[Len(s)]

\* The identity and environment setuid_root() establishes when every step
\* succeeded.
FullyRoot(p) ==
    /\ ident[p].ruid = 0 /\ ident[p].euid = 0
    /\ ident[p].rgid = 0 /\ ident[p].egid = 0
    /\ ident[p].groups = {}
    /\ env[p] = {}

\* C11: when clearenv, setuid(0), setgid(0) or setgroups(0, NULL) fails the
\* broker has exited 99 at that very step (the failing call is the last call
\* it made, so no later step and no execv follows), and an exec is attempted
\* or a tool runs only with the whole identity change done.
C11_AllOrNothing ==
    \A p \in procs :
        /\ \A i \in DOMAIN SetuidRootSteps :
              FailureMessage(SetuidRootSteps[i]) \in Range(out[p])
                => /\ pc[p] = "exit"
                   /\ exit_status[p] = {99}
                   /\ Last(calls[p]) = SetuidRootSteps[i]
                   /\ "execv" \notin Range(calls[p])
                   /\ \A j \in (i + 1)..Len(SetuidRootSteps) :
                         SetuidRootSteps[j] \notin Range(calls[p])
                   /\ image[p] = SELF
        /\ (pc[p] \in {"execv", "tool"} \/ "execv" \in Range(calls[p]))
              => FullyRoot(p)
        /\ image[p] # SELF => FullyRoot(p)

\* setuid(0) succeeded, setgid(0) failed: the broker is gone with exit 99
\* and the half-changed identity never ran a tool.
C11_Witness ==
    \E p \in procs :
        /\ pc[p] = "exit"
        /\ exit_status[p] = {99}
        /\ out[p] = <<"can't setgid(0)">>
        /\ calls[p] = <<"access", "clearenv", "setuid", "setgid">>
        /\ ident[p].ruid = 0
        /\ ident[p].rgid = caller[p].rgid
        /\ ident[p].rgid # 0
        /\ image[p] = SELF

(***************************************************************************)
(* C12.  argc bounds and unknown commands.                                 *)
(***************************************************************************)
ArgcInBounds(p) == argc[p] \in ARGC_MIN..ARGC_MAX

\* The invocation main() refuses before it looks at any path.
RefusedEarly(p) ==
    \/ ~ArgcInBounds(p)
    \/ argv[p][1] \notin Commands

EarlyMessages ==
    {<<"too few arguments">>, <<"too many arguments">>, <<"unknown command">>}

\* C12: with an unknown command name, or argc below 3 or above 128, the
\* broker makes no system call at all (no access check, no privilege call,
\* no execv), derives no path or marker name, builds no vector, keeps the
\* identity and the environment it was started with, and can only end with
\* exit 99; an argc from 3 to 128, both ends included, passes the bound test
\* (the command name is taken from argv[1] and dispatch is reached).
C12_RefusedBeforeAnyPath ==
    \A p \in procs :
        /\ RefusedEarly(p)
              => /\ calls[p] = <<>>
                 /\ name[p] = UNSET /\ path[p] = UNSET /\ base[p] = UNSET
                 /\ arg[p] = <<>>
                 /\ ident[p] = caller[p]
                 /\ env[p] = envp[p]
                 /\ image[p] = SELF
                 /\ pc[p] \in {"main", "dispatch", "exit"}
                 /\ pc[p] = "exit"
                       => exit_status[p] = {99} /\ out[p] \in EarlyMessages
        /\ (ArgcInBounds(p) /\ pc[p] # "main")
              => /\ cmd[p] = argv[p][1]
                 /\ "too few arguments" \notin Range(out[p])
                 /\ "too many arguments" \notin Range(out[p])
        /\ (~ArgcInBounds(p) /\ pc[p] # "main")
              => cmd[p] = UNSET /\ pc[p] = "exit"

\* 129 arguments naming a valid command on a provisioned environment:
\* refused although the marker is there and readable.
C12_Witness ==
    \E p \in procs :
        /\ argc[p] = ARGC_MAX + 1
        /\ argv[p][1] = "chroot_2_2"
        /\ (argv[p][2] \o "/emlix-chroot") \in DOMAIN fs
        /\ fs[argv[p][2] \o "/emlix-chroot"] = "r"
        /\ pc[p] = "exit"
        /\ out[p] = <<"too many arguments">>
        /\ calls[p] = <<>>

(***************************************************************************)
(* C13.  One pass through the phases.                                      *)
(***************************************************************************)
\* The positions of main() in program order.
ControlOrder ==
    <<"main", "dispatch", "arity", "assert", "build", "clearenv", "setuid",
      "setgid", "setgroups", "execv", "tool">>

Position(label) == CHOOSE i \in DOMAIN ControlOrder : ControlOrder[i] = label

\* The phase a position of main() belongs to.
PhaseOf(label) ==
    CASE label \in {"main", "dispatch"} -> "ParseCommand"
      [] label = "arity" -> "ValidateArity"
      [] label = "assert" -> "ValidateLayout"
      [] label = "build" -> "BuildArgumentVector"
      [] label = "clearenv" -> "SanitizeEnvironment"
      [] label \in {"setuid", "setgid", "setgroups"} -> "DropPrivilege"
      [] label = "execv" -> "ReplaceImage"
      [] label = "tool" -> "Replaced"
      [] label = "exit" -> "RejectExit"

Phases ==
    <<"ParseCommand", "ValidateArity", "ValidateLayout",
      "BuildArgumentVector", "SanitizeEnvironment", "DropPrivilege",
      "ReplaceImage", "Replaced">>

PhaseRank(ph) == CHOOSE i \in DOMAIN Phases : Phases[i] = ph

\* Process p did something in this step.
Moved(p) ==
    \/ pc'[p] # pc[p]
    \/ calls'[p] # calls[p]
    \/ out'[p] # out[p]

\* C13: every step of an invocation either goes to the exit state, with
\* status 99, or goes on to the next position of main(): the phase stays the
\* same or becomes the next one of ParseCommand, ValidateArity,
\* ValidateLayout, BuildArgumentVector, SanitizeEnvironment, DropPrivilege,
\* ReplaceImage, never an earlier one and never one further ahead; no call
\* is made twice; the exit state and the replaced image are final; and the
\* image is replaced only at the end of the whole sequence.
C13_SinglePass ==
    [][\A p \in procs :
         Moved(p) =>
           /\ pc[p] \notin {"exit", "tool"}
           /\ \/ pc'[p] = "exit" /\ exit_status'[p] = {99}
              \/ /\ pc'[p] # "exit"
                 /\ Position(pc'[p]) = Position(pc[p]) + 1
                 /\ PhaseRank(PhaseOf(pc'[p])) \in
                       {PhaseRank(PhaseOf(pc[p])),
                        PhaseRank(PhaseOf(pc[p])) + 1}
           /\ calls'[p] # calls[p]
                 => /\ Len(calls'[p]) = Len(calls[p]) + 1
                    /\ Last(calls'[p]) \notin Range(calls[p])
           /\ pc'[p] = "tool"
                 => /\ pc[p] = "execv"
                    /\ calls'[p] = <<"access", "clearenv", "setuid", "setgid",
                                     "setgroups", "execv">>]_vars

\* An accepted enter invocation that went the whole way.
C13_Witness ==
    \E p \in procs :
        /\ pc[p] = "tool"
        /\ cmd[p] = "chroot_2_3"
        /\ image[p] = chroot_tool
        /\ calls[p] = <<"access", "clearenv", "setuid", "setgid",
                        "setgroups", "execv">>
        /\ out[p] = <<>>

(***************************************************************************)
(* C14.  One exec attempt, on the tool of the command.                     *)
(***************************************************************************)
\* The compiled-in tool each command names in its execv.
CommandTool ==
    [c \in Commands |->
        CASE c \in {"chroot_2_2", "chroot_2_3"} -> "/usr/sbin/chroot"
          [] c \in {"extract_tar_2_2", "extract_tar_2_3"} -> "/bin/tar"
          [] c \in {"set_permissions_2_2", "set_permissions_2_3"}
               -> "/bin/chown"
          [] c \in {"remove_chroot_2_2", "remove_chroot_2_3"} -> "/bin/rm"]

Count(s, x) == Cardinality({i \in DOMAIN s : s[i] = x})

\* C14: a failed execv ends the broker with exit 99 right there (the execv
\* is the last call it made and the image is still the broker); execv is
\* called at most once in an invocation, and its target is the compiled-in
\* tool of the command given in argv[1], never another tool or path.
C14_OneExecAttempt ==
    \A p \in procs :
        /\ Len(execs[p]) <= 1
        /\ Count(calls[p], "execv") = Len(execs[p])
        /\ \A i \in DOMAIN execs[p] : execs[p][i] = CommandTool[argv[p][1]]
        /\ "can't exec" \in Range(out[p])
              => /\ pc[p] = "exit"
                 /\ exit_status[p] = {99}
                 /\ Last(calls[p]) = "execv"
                 /\ Len(execs[p]) = 1
                 /\ image[p] = SELF
                 /\ tool_argv[p] = <<>>
        /\ image[p] # SELF => image[p] = CommandTool[argv[p][1]]

\* The remove tool could not be started: one attempt, exit 99.
C14_Witness ==
    \E p \in procs :
        /\ pc[p] = "exit"
        /\ exit_status[p] = {99}
        /\ out[p] = <<"can't exec">>
        /\ cmd[p] = "remove_chroot_2_3"
        /\ execs[p] = <<rm_tool>>
        /\ image[p] = SELF
        /\ FullyRoot(p)

(***************************************************************************)
(* Two invocations on one environment, and what the started tools do to    *)
(* it.  The header comment of e2-su-2.2.c describes both layouts: in the   *)
(* legacy one the marker is inside the tree that is entered and removed,   *)
(* in the current one the tree is <base>/chroot and the marker is next to  *)
(* it.                                                                     *)
(***************************************************************************)
\* An environment at d with some content in the tree.
Layouts == {"legacy", "current", "both"}

MkEnv(d, layout) ==
    LET legacy == {d, d \o "/emlix-chroot", d \o "/bin"}
        current == {d, d \o "/e2factory-chroot", d \o "/chroot",
                    d \o "/chroot/bin"}
        files == CASE layout = "legacy" -> legacy
                   [] layout = "current" -> current
                   [] layout = "both" -> legacy \cup current
    IN  [f \in files |-> "r"]

ConcDirs == {"/srv/b1", LongDir(PATH_MAX - 1)}

ConcArgvs(d) ==
    { ArgvOf(<<SELF, c, d>>) :
        c \in {c \in Commands : ~IsExtractTar(c)} } \cup
    { ArgvOf(<<SELF, c, d, "tar", "a.tar">>) :
        c \in {c \in Commands : IsExtractTar(c)} }

ConcEnv == {"LD_PRELOAD=/tmp/evil.so"}

\* Process 1 is a remove, process 2 any command, both on the same directory.
InitConc ==
    /\ procs = {1, 2}
    /\ variant = "global"
    /\ \E d \in ConcDirs, layout \in Layouts :
          /\ fs = MkEnv(d, layout)
          /\ argv \in {a \in [procs -> ConcArgvs(d)] : IsRemoveChroot(a[1][1])}
    /\ argc = [p \in procs |-> Cardinality(DOMAIN argv[p])]
    /\ request = argv
    /\ envp = [p \in procs |-> ConcEnv]
    /\ env = envp
    /\ caller = [p \in procs |-> CallerIdent]
    /\ ident = caller
    /\ pc = [p \in procs |-> "main"]
    /\ cmd = [p \in procs |-> UNSET]
    /\ base = [p \in procs |-> UNSET]
    /\ path = [p \in procs |-> UNSET]
    /\ name = [p \in procs |-> UNSET]
    /\ arg = [p \in procs |-> <<>>]
    /\ calls = [p \in procs |-> <<>>]
    /\ out = [p \in procs |-> <<>>]
    /\ exit_status = [p \in procs |-> {}]
    /\ image = [p \in procs |-> SELF]
    /\ tool_argv = [p \in procs |-> <<>>]
    /\ execs = [p \in procs |-> <<>>]

\* f is below the directory root.
Below(f, root) == IsPrefix(root \o "/", f)

\* Nothing that exists is below f.
Leaf(f) == \A g \in DOMAIN fs : ~Below(g, f)

Unlink(f) == fs' = [g \in DOMAIN fs \ {f} |-> fs[g]]

Creat(f) == fs' = [g \in DOMAIN fs \cup {f} |-> IF g = f THEN "r" ELSE fs[g]]

\* The directory the started tool works on: the slot the branch stored the
\* path in.
ToolRoot(p) ==
    CASE image[p] = chroot_tool -> tool_argv[p][2]
      [] image[p] = tar_tool -> tool_argv[p][3]
      [] image[p] = chown_tool -> tool_argv[p][3]
      [] image[p] = rm_tool -> tool_argv[p][4]

ToolFrame == <<inputs, env, ident, locals, calls, out, exit_status, image,
               tool_argv, execs>>

\* rm -r -f <root>: one unlink or rmdir, contents before their directory.
ToolRm(p) ==
    /\ pc[p] = "tool"
    /\ image[p] = rm_tool
    /\ \E f \in DOMAIN fs :
          /\ f = ToolRoot(p) \/ Below(f, ToolRoot(p))
          /\ Leaf(f)
          /\ Unlink(f)
    /\ UNCHANGED <<ToolFrame, pc>>

\* A process confined to <root> by chroot removes or creates something
\* inside its root.
ToolChroot(p) ==
    /\ pc[p] = "tool"
    /\ image[p] = chroot_tool
    /\ ToolRoot(p) \in DOMAIN fs
    /\ \/ \E f \in DOMAIN fs : Below(f, ToolRoot(p)) /\ Leaf(f) /\ Unlink(f)
       \/ /\ (ToolRoot(p) \o "/bin") \notin DOMAIN fs
          /\ Creat(ToolRoot(p) \o "/bin")
    /\ UNCHANGED <<ToolFrame, pc>>

\* tar -C <root> -xf <file>: the archive's content appears below the root.
ToolTar(p) ==
    /\ pc[p] = "tool"
    /\ image[p] = tar_tool
    /\ ToolRoot(p) \in DOMAIN fs
    /\ (ToolRoot(p) \o "/bin") \notin DOMAIN fs
    /\ Creat(ToolRoot(p) \o "/bin")
    /\ UNCHANGED <<ToolFrame, pc>>

\* The tool ends: finished, failed or killed half-way.
ToolExit(p) ==
    /\ pc[p] = "tool"
    /\ pc' = [pc EXCEPT ![p] = "done"]
    /\ UNCHANGED <<ToolFrame, fs>>

NextConc ==
    \/ \E p \in procs : Main(p)
    \/ \E p \in procs : Dispatch(p)
    \/ \E p \in procs : Arity(p)
    \/ \E p \in procs : assert_chroot_environment(p)
    \/ \E p \in procs : assert_chroot_environment_2_3(p)
    \/ \E p \in procs : BuildChroot(p)
    \/ \E p \in procs : BuildExtractTar(p)
    \/ \E p \in procs : BuildSetPermissions(p)
    \/ \E p \in procs : BuildRemoveChroot(p)
    \/ \E p \in procs : Clearenv(p)
    \/ \E p \in procs : Setuid(p)
    \/ \E p \in procs : Setgid(p)
    \/ \E p \in procs : Setgroups(p)
    \/ \E p \in procs : Execv(p)
    \/ \E p \in procs : ToolRm(p)
    \/ \E p \in procs : ToolChroot(p)
    \/ \E p \in procs : ToolTar(p)
    \/ \E p \in procs : ToolExit(p)

SpecConc == InitConc /\ [][NextConc]_vars

TypeConc == \A p \in procs : pc[p] \in Running \cup {"exit", "tool", "done"}

(***************************************************************************)
(* C15.  No lock, no serialization.                                        *)
(***************************************************************************)
\* Positions after the marker check and before the image is replaced.
PastCheck == {"build", "clearenv", "setuid", "setgid", "setgroups", "execv"}

\* C15: no invocation ever waits for another one: whatever the other
\* invocation is doing and whatever has happened to the environment since
\* the marker check, a running broker can take its next step, and one that
\* has passed the check and reached its execv can replace its image.
C15_NoSerialization ==
    \A p \in procs :
        /\ pc[p] \in Running => ENABLED Step(p)
        /\ pc[p] \in PastCheck \ {"build"}
              => ENABLED (Step(p) /\ pc'[p] # "exit")
        /\ pc[p] = "execv"
              => ENABLED (Execv(p) /\ pc'[p] = "tool"
                          /\ image'[p] = CommandTool[cmd[p]])

\* The enter passed its check while the marker was there; the remove then
\* passed its own check, replaced its image and deleted the tree, marker
\* included; the enter stands before its execv and can still replace its
\* image.
C15_Witness ==
    \E e \in procs, r \in procs :
        /\ e # r
        /\ cmd[e] = "chroot_2_2" /\ cmd[r] = "remove_chroot_2_2"
        /\ argv[e][2] = "/srv/b1"
        /\ pc[e] = "execv"
        /\ calls[e] = <<"access", "clearenv", "setuid", "setgid", "setgroups">>
        /\ calls[r] = <<"access", "clearenv", "setuid", "setgid", "setgroups",
                        "execv">>
        /\ image[r] = rm_tool
        /\ pc[r] = "done"
        /\ name[e] = "/srv/b1/emlix-chroot"
        /\ name[e] \notin DOMAIN fs
        /\ "/srv/b1" \notin DOMAIN fs
        /\ ENABLED (Execv(e) /\ pc'[e] = "tool" /\ image'[e] = chroot_tool)

(***************************************************************************)
(* C16.  The legacy layout after its marker is gone.                       *)
(***************************************************************************)
LegacyMarker(p) == argv[p][2] \o "/emlix-chroot"

\* Process p takes a step of the broker (not of a tool it has become).
BrokerStep(p) == pc[p] \in Running /\ Moved(p)

\* C16: a legacy (*_2_2) command whose marker check runs while
\* <path>/emlix-chroot does not exist is rejected with exit 99, the access
\* check being the only call it made, whatever else is left under <path>;
\* and no step of the broker brings a missing marker back.
C16_LegacyStuck ==
    [][\A p \in procs :
         /\ (/\ pc[p] = "assert"
             /\ cmd[p] \in Legacy
             /\ LegacyMarker(p) \notin DOMAIN fs
             /\ Moved(p))
               => /\ pc'[p] = "exit"
                  /\ exit_status'[p] = {99}
                  /\ out'[p] = <<"not a chroot environment">>
                  /\ calls'[p] = <<"access">>
         /\ (BrokerStep(p) /\ LegacyMarker(p) \notin DOMAIN fs)
               => LegacyMarker(p) \notin DOMAIN fs']_vars

(***************************************************************************)
(* C17.  The current layout keeps its marker.                              *)
(***************************************************************************)
CurrentMarker(p) == argv[p][2] \o "/e2factory-chroot"

\* Only commands of the current layout are at work on the environment.
OnlyCurrent == \A p \in procs : argv[p][1] \in Current

\* C17: while only *_2_3 commands work on a base, no step (of a broker, of
\* a complete or interrupted rm started by remove_chroot_2_3, of a process
\* confined by chroot_2_3, of a tar started by extract_tar_2_3) removes
\* <base>/e2factory-chroot, and every *_2_3 marker check that runs while
\* the marker is there passes.
C17_CurrentMarkerSurvives ==
    [][OnlyCurrent =>
         \A p \in procs :
            /\ CurrentMarker(p) \in DOMAIN fs
                  => CurrentMarker(p) \in DOMAIN fs'
            /\ (/\ pc[p] = "assert"
                /\ Moved(p)
                /\ CurrentMarker(p) \in DOMAIN fs)
                  => pc'[p] = "build" /\ out'[p] = <<>>]_vars

(***************************************************************************)
(* C18.  The broker and the filesystem.                                    *)
(***************************************************************************)
\* The broker is over: exit(99) was called.
Rejected(p) == pc[p] = "exit"

\* The calls of the broker that look at or change the filesystem.
FilesystemCalls(p) ==
    SelectSeq(calls[p], LAMBDA c : c \notin {"clearenv", "setuid", "setgid",
                                             "setgroups", "execv"})

ReadOnly ==
    [][\A p \in procs : BrokerStep(p) => fs' = fs]_vars

\* C18 as stated: no step of the broker changes the filesystem, its only
\* filesystem call is the one access check, and every invocation that ended
\* in exit 99 has the identity it was started with.
C18_RejectedUntouched ==
    /\ ReadOnly
    /\ [](\A p \in procs :
            /\ IsPrefix(FilesystemCalls(p), <<"access">>)
            /\ Rejected(p) => ident[p] = caller[p])

\* C18, amended: no step of the broker changes the filesystem and its only
\* filesystem call is the one access check; an invocation rejected before
\* setuid_root() (argument or layout error) has the identity and the
\* environment it was started with; the identity changes only by the calls
\* of setuid_root(), so an exit 99 after a privilege or exec error leaves
\* the process with as much of the root identity as had been set.
C18_ReadOnlyBroker ==
    /\ ReadOnly
    /\ [](\A p \in procs :
            /\ IsPrefix(FilesystemCalls(p), <<"access">>)
            /\ (Rejected(p) /\ Range(calls[p]) \subseteq {"access"})
                  => ident[p] = caller[p] /\ env[p] = envp[p]
            /\ ident[p] # caller[p] => "setuid" \in Range(calls[p])
            /\ (Rejected(p) /\ "setgid" \in Range(calls[p]))
                  => ident[p].ruid = 0 /\ ident[p] # caller[p])

\* Exit 99 after a failed execv: the tree is as it was provisioned, the
\* process is root.
C18_Witness ==
    \E p \in procs :
        /\ Rejected(p)
        /\ exit_status[p] = {99}
        /\ out[p] = <<"can't exec">>
        /\ FilesystemCalls(p) = <<"access">>
        /\ FullyRoot(p)
        /\ ident[p] # caller[p]
        /\ fs = MkEnv("/srv/b1", "both")

(***************************************************************************)
(* The relay, e2-su.c: drops the arguments that start with a dash, becomes *)
(* root and starts the root tool.                                          *)
(***************************************************************************)
RELAY == "e2-su"

\* TOOLDIR comes from the build (#error when it is not defined).
TOOLDIR == "/usr/lib/e2"
E2_ROOT_TOOL_NAME == "e2-root"
E2_ROOT_TOOL_PATH == TOOLDIR \o "/" \o E2_ROOT_TOOL_NAME
tool_name == E2_ROOT_TOOL_NAME
tool_path == E2_ROOT_TOOL_PATH

\* char *arg [ 1024 ];
RELAY_SLOTS == 1024

\* argv[i][0] == '-'
StartsWithDash(t) == Len(t) > 0 /\ Head(t) = "-"

\* The loop for(i=1; argv[i]; i++) over argv[lo..hi]: the arguments it
\* stores, in the order it stores them.  (Split in halves: the loop is over
\* up to a thousand arguments.)
RECURSIVE RelayLoop(_, _, _)
RelayLoop(av, lo, hi) ==
    IF lo > hi THEN <<>>
    ELSE IF lo = hi
      THEN IF StartsWithDash(av[lo]) THEN <<>> ELSE <<av[lo]>>
    ELSE LET mid == (lo + hi) \div 2
         IN  RelayLoop(av, lo, mid) \o RelayLoop(av, mid + 1, hi)

\* k = 0; arg[k++] = tool_name; the loop with arg[k++] = argv[i];
\* arg[k] = NULL: slot k holds the k-th stored argument.
RelayArg(av, n) ==
    LET stored == RelayLoop(av, 1, n - 1)
        k == Len(stored) + 1
    IN  [s \in 0..k |->
            IF s = 0 THEN Ptr(tool_name)
            ELSE IF s = k THEN NULL
            ELSE Ptr(stored[s])]

\* The invocations of the relay that are tried.
RelayTrailings ==
    { <<>>,
      <<"chroot_2_3", "/srv/b1", "/bin/sh", "-c", "echo hi">>,
      <<"-x", "remove_chroot_2_3", "--force", "/srv/b1", "", "-", "a-b">>,
      <<"-a", "--", "-b">>,
      <<"remove_chroot_2_3", "/srv/b1">> } \cup
    { Fill(RELAY_SLOTS - 2), <<"-v">> \o Fill(RELAY_SLOTS - 2) \o <<"-q">> } \cup
    { Fill(RELAY_SLOTS - 1 + k) : k \in 0..MaxOver } \cup
    { <<"-v">> \o Fill(RELAY_SLOTS - 1 + k) \o <<"-q">> : k \in 0..MaxOver }

RelayArgvs == { ArgvOf(<<RELAY>> \o t) : t \in RelayTrailings }

RelayEnvs == { {"PATH=/usr/bin"}, {"PATH=/usr/bin", "DEBUG=1"} }

\* The relay installed setuid root and started by a user; not installed
\* setuid; started by root.
RelayCallers ==
    { CallerIdent,
      [ruid |-> 1000, euid |-> 1000, rgid |-> 1000, egid |-> 1000,
       groups |-> {1000, 27}],
      [ruid |-> 0, euid |-> 0, rgid |-> 0, egid |-> 0, groups |-> {0}] }

InitRelay ==
    /\ procs = {1}
    /\ variant = "global"
    /\ fs = MkEnv("/srv/b1", "current")
    /\ argv \in [procs -> RelayArgvs]
    /\ argc = [p \in procs |-> Cardinality(DOMAIN argv[p])]
    /\ request = argv
    /\ envp \in [procs -> RelayEnvs]
    /\ env = envp
    /\ caller \in [procs -> RelayCallers]
    /\ ident = caller
    /\ pc = [p \in procs |-> "relay_main"]
    /\ cmd = [p \in procs |-> UNSET]
    /\ base = [p \in procs |-> UNSET]
    /\ path = [p \in procs |-> UNSET]
    /\ name = [p \in procs |-> UNSET]
    /\ arg = [p \in procs |-> <<>>]
    /\ calls = [p \in procs |-> <<>>]
    /\ out = [p \in procs |-> <<>>]
    /\ exit_status = [p \in procs |-> {}]
    /\ image = [p \in procs |-> RELAY]
    /\ tool_argv = [p \in procs |-> <<>>]
    /\ execs = [p \in procs |-> <<>>]

\* if(argc < 2) { fprintf(stderr, ...); exit(1); }
RelayMain(p) ==
    /\ pc[p] = "relay_main"
    /\ IF argc[p] < 2
         THEN /\ puts(p, "this tool is not intended to be executed directly")
              /\ exit(p, 1)
         ELSE goto(p, "relay_filter")
    /\ UNCHANGED <<inputs, fs, env, ident, locals, calls, image, tool_argv,
                   execs>>

\* What the DEBUG branch prints: the tool path, then each argument quoted.
RelayDebug(a) ==
    LET v == ExecArgs(a)
    IN  <<E2_ROOT_TOOL_PATH>> \o [i \in 1..Len(v) |-> "\"" \o v[i] \o "\""]

\* k = 0; arg[k++] = tool_name; the loop; arg[k] = NULL; the DEBUG print.
\* A store to arg[1024] or beyond is outside the array: the process may
\* carry on with the values where it stored them, be killed, or find the
\* first slot beyond the array overwritten (here: zeroed) by the time execvp
\* reads it.
RelayFilter(p) ==
    /\ pc[p] = "relay_filter"
    /\ LET full == RelayArg(argv[p], argc[p])
           fits == \A s \in DOMAIN full : s < RELAY_SLOTS
           debug(a) == IF "DEBUG=1" \in env[p]
                         THEN out' = [out EXCEPT ![p] = @ \o RelayDebug(a)]
                         ELSE UNCHANGED out
       IN  \/ /\ arg' = [arg EXCEPT ![p] = full]
              /\ debug(full)
              /\ pc' = [pc EXCEPT ![p] = "relay_setuid"]
           \/ /\ ~fits
              /\ arg' = [arg EXCEPT ![p] = full]
              /\ UNCHANGED out
              /\ pc' = [pc EXCEPT ![p] = "killed"]
           \/ /\ ~fits
              /\ arg' = [arg EXCEPT ![p] = [full EXCEPT ![RELAY_SLOTS] = NULL]]
              /\ debug(full)
              /\ pc' = [pc EXCEPT ![p] = "relay_setuid"]
    /\ UNCHANGED <<inputs, fs, env, ident, cmd, base, path, name, calls,
                   exit_status, image, tool_argv, execs>>

\* setuid(0) needs an effective uid of 0.
RelayRC(p) == IF ident[p].euid = 0 THEN RC ELSE RC \ {0}

\* Faulty variant: the relay gives up its privilege, setuid(getuid()).
RelaySetuid_Drop(p) ==
    /\ pc[p] = "relay_setuid"
    /\ syscall(p, "setuid")
    /\ ident' = [ident EXCEPT ![p].euid = ident[p].ruid]
    /\ goto(p, "relay_setgid")
    /\ UNCHANGED <<inputs, fs, env, locals, image, tool_argv, execs>>

\* Faulty variant: seteuid(0) in place of setuid(0), the real uid stays
\* the caller's.
RelaySetuid_EffectiveOnly(p) ==
    /\ pc[p] = "relay_setuid"
    /\ syscall(p, "setuid")
    /\ \E rc \in RelayRC(p) :
          IF rc # 0
            THEN /\ perror(p, "can't setuid(0)") /\ exit(p, 1)
                 /\ UNCHANGED ident
            ELSE /\ ident' = [ident EXCEPT ![p].euid = 0]
                 /\ goto(p, "relay_setgid")
    /\ UNCHANGED <<inputs, fs, env, locals, image, tool_argv, execs>>

\* rc = setuid(0); if(rc != 0) { perror(...); exit(1); }
RelaySetuid(p) ==
    /\ pc[p] = "relay_setuid"
    /\ syscall(p, "setuid")
    /\ \E rc \in RelayRC(p) :
          IF rc # 0
            THEN /\ perror(p, "can't setuid(0)") /\ exit(p, 1)
                 /\ UNCHANGED ident
            ELSE /\ ident' = [ident EXCEPT ![p].ruid = 0, ![p].euid = 0]
                 /\ goto(p, "relay_setgid")
    /\ UNCHANGED <<inputs, fs, env, locals, image, tool_argv, execs>>

\* rc = setgid(0);
RelaySetgid(p) ==
    /\ pc[p] = "relay_setgid"
    /\ syscall(p, "setgid")
    /\ \E rc \in RelayRC(p) :
          IF rc # 0
            THEN /\ perror(p, "can't setgid(0)") /\ exit(p, 1)
                 /\ UNCHANGED ident
            ELSE /\ ident' = [ident EXCEPT ![p].rgid = 0, ![p].egid = 0]
                 /\ goto(p, "relay_setgroups")
    /\ UNCHANGED <<inputs, fs, env, locals, image, tool_argv, execs>>

\* rc = setgroups(0, NULL);
RelaySetgroups(p) ==
    /\ pc[p] = "relay_setgroups"
    /\ syscall(p, "setgroups")
    /\ \E rc \in RelayRC(p) :
          IF rc # 0
            THEN /\ perror(p, "can't setgroups()") /\ exit(p, 1)
                 /\ UNCHANGED ident
            ELSE /\ ident' = [ident EXCEPT ![p].groups = {}]
                 /\ goto(p, "relay_execvp")
    /\ UNCHANGED <<inputs, fs, env, locals, image, tool_argv, execs>>

\* Faulty variant: a failed exec is reported with the broker's code 99.
RelayExecvp_Code99(p) ==
    /\ pc[p] = "relay_execvp"
    /\ syscall(p, "execvp")
    /\ execs' = [execs EXCEPT ![p] = Append(@, E2_ROOT_TOOL_PATH)]
    /\ \E rc \in RC :
          IF rc # 0
            THEN /\ perror(p, "can't exec") /\ exit(p, 99)
                 /\ UNCHANGED <<image, tool_argv>>
            ELSE /\ image' = [image EXCEPT ![p] = E2_ROOT_TOOL_PATH]
                 /\ tool_argv' = [tool_argv EXCEPT ![p] = ExecArgs(arg[p])]
                 /\ goto(p, "tool")
    /\ UNCHANGED <<inputs, fs, env, ident, locals>>

\* rc = execvp(E2_ROOT_TOOL_PATH, arg); perror("can't exec"); exit(3);
RelayExecvp(p) ==
    /\ pc[p] = "relay_execvp"
    /\ syscall(p, "execvp")
    /\ execs' = [execs EXCEPT ![p] = Append(@, E2_ROOT_TOOL_PATH)]
    /\ \E rc \in RC :
          IF rc # 0
            THEN /\ perror(p, "can't exec") /\ exit(p, 3)
                 /\ UNCHANGED <<image, tool_argv>>
            ELSE /\ image' = [image EXCEPT ![p] = E2_ROOT_TOOL_PATH]
                 /\ tool_argv' = [tool_argv EXCEPT ![p] = ExecArgs(arg[p])]
                 /\ goto(p, "tool")
    /\ UNCHANGED <<inputs, fs, env, ident, locals>>

NextRelay ==
    \/ \E p \in procs : RelayMain(p)
    \/ \E p \in procs : RelayFilter(p)
    \/ \E p \in procs : RelaySetuid(p)
    \/ \E p \in procs : RelaySetgid(p)
    \/ \E p \in procs : RelaySetgroups(p)
    \/ \E p \in procs : RelayExecvp(p)

SpecRelay == InitRelay /\ [][NextRelay]_vars

TypeRelay ==
    \A p \in procs :
        pc[p] \in {"relay_main", "relay_filter", "relay_setuid",
                   "relay_setgid", "relay_setgroups", "relay_execvp",
                   "tool", "exit", "killed"}

(***************************************************************************)
(* C19.  The vector the relay passes on.                                   *)
(***************************************************************************)
\* The arguments after argv[0], in order.
Given(p) == [i \in 1..(argc[p] - 1) |-> argv[p][i]]

NoDash(t) == t = "" \/ SubSeq(t, 1, 1) # "-"

\* The relay has built its vector.
RelayBuilt(p) ==
    pc[p] \in {"relay_setuid", "relay_setgid", "relay_setgroups",
               "relay_execvp", "killed"}
      \/ (pc[p] \in {"exit", "tool"} /\ "setuid" \in Range(calls[p]))

\* C19: the vector the relay has built is the tool name followed by the
\* arguments argv[1], argv[2], ... that do not start with a dash, in their
\* original order and unchanged, followed at once by the terminator; that
\* vector, and nothing else, is what the started tool receives.
C19_RelayVector ==
    \A p \in procs :
        RelayBuilt(p) =>
            LET kept == SelectSeq(Given(p), NoDash)
                last == Len(kept) + 1
            IN  /\ pc[p] # "killed"
                /\ DOMAIN arg[p] = 0..last
                /\ arg[p][0] = <<"e2-root">>
                /\ \A s \in 1..Len(kept) : arg[p][s] = <<kept[s]>>
                /\ arg[p][last] = NULL
                /\ pc[p] = "tool" => tool_argv[p] = <<"e2-root">> \o kept

(***************************************************************************)
(* C20.  The identity at the relay's exec.                                 *)
(***************************************************************************)
\* The relay stands at, or has made, its execvp.
RelayAtExec(p) ==
    pc[p] = "relay_execvp" \/ "execvp" \in Range(calls[p])

RootIdent ==
    [ruid |-> 0, euid |-> 0, rgid |-> 0, egid |-> 0, groups |-> {}]

\* C20 as stated: at its exec the relay runs with the real uid, gid and
\* groups of its caller.
C20_CallerIdentityAtExec ==
    \A p \in procs :
        RelayAtExec(p) =>
            /\ ident[p].ruid = caller[p].ruid
            /\ ident[p].rgid = caller[p].rgid
            /\ ident[p].groups = caller[p].groups

\* C20, amended: the relay does the opposite.  From the successful
\* setuid(0) on, real and effective uid are 0; at its execvp the process is
\* root in full (uid 0, gid 0, no supplementary groups), whoever the caller
\* was; when setuid(0), setgid(0) or setgroups(0, NULL) fails, which is
\* certain for a relay without an effective uid of 0, the relay exits 1
\* and makes no exec.
C20_RootAtExec ==
    \A p \in procs :
        /\ RelayAtExec(p) => ident[p] = RootIdent
        /\ pc[p] \in {"relay_setgid", "relay_setgroups"}
              => ident[p].ruid = 0 /\ ident[p].euid = 0
        /\ (pc[p] = "exit" /\ "execvp" \notin Range(calls[p]))
              => exit_status[p] = {1} /\ image[p] = RELAY /\ execs[p] = <<>>
        /\ (caller[p].euid # 0 /\ pc[p] \notin {"relay_main", "relay_filter",
                                                  "relay_setuid", "killed"})
              => /\ pc[p] = "exit"
                 /\ exit_status[p] = {1}
                 /\ ident[p] = caller[p]

\* Started by user 1000 through a setuid-root relay: the root tool runs
\* with real uid 0, gid 0 and no groups.
C20_Witness ==
    \E p \in procs :
        /\ pc[p] = "tool"
        /\ image[p] = E2_ROOT_TOOL_PATH
        /\ caller[p].ruid = 1000
        /\ caller[p].groups = {1000, 27}
        /\ ident[p] = RootIdent
        /\ calls[p] = <<"setuid", "setgid", "setgroups", "execvp">>

(***************************************************************************)
(* Two invocations with the same argv on the same, unchanging filesystem   *)
(* that differ in their environment only.                                  *)
(***************************************************************************)
PairTrailings ==
    { <<>>, <<"tar", "a.tar">>, <<"tar.gz", "a.tgz">>,
      <<"tar.xz", "file.txz">>, <<"/bin/sh", "-c", "echo hi">> }

PairDirs == {"/srv/b1", LongDir(PATH_MAX - 1)}

PairArgvs ==
    { ArgvOf(<<SELF, c[1], c[2]>> \o c[3]) :
        c \in CmdNames \X PairDirs \X PairTrailings }

\* The broker never calls getenv; print_arg() looks at the macro DEBUG,
\* which is not defined, not at a variable of the environment.
PairEnvs ==
    { {"LD_PRELOAD=/tmp/evil.so", "PATH=/tmp/bin"}, {"DEBUG=1"} }

InitPair ==
    /\ procs = {1, 2}
    /\ variant \in {"generic", "global"}
    /\ \E d \in PairDirs, ms \in MarkerStates, a \in PairArgvs :
          /\ a[2] = d
          /\ fs = MkFs(d, ms)
          /\ argv = [p \in procs |-> a]
    /\ argc = [p \in procs |-> Cardinality(DOMAIN argv[p])]
    /\ request = argv
    /\ \E e \in PairEnvs : envp = (1 :> {}) @@ (2 :> e)
    /\ env = envp
    /\ caller = [p \in procs |-> CallerIdent]
    /\ ident = caller
    /\ pc = [p \in procs |-> "main"]
    /\ cmd = [p \in procs |-> UNSET]
    /\ base = [p \in procs |-> UNSET]
    /\ path = [p \in procs |-> UNSET]
    /\ name = [p \in procs |-> UNSET]
    /\ arg = [p \in procs |-> <<>>]
    /\ calls = [p \in procs |-> <<>>]
    /\ out = [p \in procs |-> <<>>]
    /\ exit_status = [p \in procs |-> {}]
    /\ image = [p \in procs |-> SELF]
    /\ tool_argv = [p \in procs |-> <<>>]
    /\ execs = [p \in procs |-> <<>>]

SpecPair == InitPair /\ [][Next]_vars

(***************************************************************************)
(* C21.  The environment does not influence the outcome.                   *)
(***************************************************************************)
\* Validation is over for p: accepted (setuid_root() was entered) or
\* refused.
Accepted(p) ==
    pc[p] \in {"clearenv", "setuid", "setgid", "setgroups", "execv", "tool"}
      \/ "clearenv" \in Range(calls[p])

Refused(p) == pc[p] = "exit" /\ ~Accepted(p)

FourTools == {"/usr/sbin/chroot", "/bin/tar", "/bin/chown", "/bin/rm"}

\* C21: of two invocations with the same argv and filesystem and different
\* environments, either both are accepted, with the same argument vector,
\* or both are refused, with the same message; every exec is attempted on
\* the same one of the four compiled-in absolute paths; the vectors the
\* tools receive are equal; and a tool always starts with an empty
\* environment.
C21_EnvIndependent ==
    \A p \in procs, q \in procs :
        (argv[p] = argv[q] /\ envp[p] # envp[q]) =>
            /\ ~(Accepted(p) /\ Refused(q))
            /\ (Accepted(p) /\ Accepted(q)) => arg[p] = arg[q]
            /\ (Refused(p) /\ Refused(q)) => out[p] = out[q]
            /\ \A i \in DOMAIN execs[p] : execs[p][i] \in FourTools
            /\ (execs[p] # <<>> /\ execs[q] # <<>>) => execs[p] = execs[q]
            /\ pc[p] = "tool"
                  => /\ env[p] = {}
                     /\ image[p] \in FourTools
                     /\ pc[q] = "tool"
                           => /\ image[p] = image[q]
                              /\ tool_argv[p] = tool_argv[q]

\* Both became the enter tool, one started with LD_PRELOAD and PATH set.
C21_Witness ==
    /\ procs = {1, 2}
    /\ pc[1] = "tool" /\ pc[2] = "tool"
    /\ envp[1] = {}
    /\ "LD_PRELOAD=/tmp/evil.so" \in envp[2]
    /\ env[2] = {}
    /\ image[1] = chroot_tool /\ image[2] = chroot_tool
    /\ tool_argv[1] = <<"chroot", "/srv/b1/chroot", "/bin/sh", "-c", "echo hi">>
    /\ tool_argv[2] = tool_argv[1]

(***************************************************************************)
(* C22.  The 256-slot buffer of the enter commands.                        *)
(***************************************************************************)
\* The enter branch has filled its buffer.
EnterBuilt(p) == cmd[p] \in {"chroot_2_2", "chroot_2_3"} /\ arg[p] # <<>>

\* C22: once an enter command has built its vector, the slots written are
\* exactly 0..argc-1, all of them within 0..255; the slots 2..argc-2 hold
\* the argc-3 trailing arguments, at most 254 of them, and the terminator
\* is in slot argc-1.
C22_EnterBufferInBounds ==
    \A p \in procs :
        EnterBuilt(p) =>
            /\ argc[p] \in ARGC_MIN..ARGC_MAX
            /\ DOMAIN arg[p] = 0..(argc[p] - 1)
            /\ \A i \in DOMAIN arg[p] : 0 <= i /\ i <= ARG_SLOTS - 1
            /\ argc[p] - 3 <= ARG_SLOTS - 2
            /\ \A i \in 2..(argc[p] - 2) : arg[p][i] = <<argv[p][i + 1]>>
            /\ arg[p][argc[p] - 1] = NULL
            /\ \A i \in 0..(argc[p] - 2) : arg[p][i] # NULL

\* The longest accepted enter command: 125 trailing arguments, terminator
\* in slot 127.
C22_Witness ==
    \E p \in procs :
        /\ EnterBuilt(p)
        /\ argc[p] = ARGC_MAX
        /\ pc[p] = "clearenv"
        /\ arg[p][ARGC_MAX - 1] = NULL
        /\ arg[p][ARGC_MAX - 2] = <<argv[p][ARGC_MAX - 1]>>

(***************************************************************************)
(* C23.  Termination.  main() is straight-line code in one process; a      *)
(* process that can run its next statement eventually does.                *)
(***************************************************************************)
SpecFair == Spec /\ WF_vars(Next)

Terminal(p) == pc[p] \in {"tool", "exit"}

\* The two ways an invocation ends exclude each other.
TerminalStates ==
    \A p \in procs :
        /\ pc[p] = "tool"
              => /\ image[p] \in FourTools
                 /\ exit_status[p] = {}
        /\ pc[p] = "exit"
              => /\ image[p] = SELF
                 /\ exit_status[p] = {99}
        /\ ~Terminal(p) => image[p] = SELF /\ exit_status[p] = {}
        /\ Len(calls[p]) <= Len(ControlOrder) - 5
        /\ Len(out[p]) <= 1

\* C23: every invocation ends, and stays, in one of two states, replaced
\* by a tool or exit 99; until then it can always take its next step (it
\* never waits), it makes at most six system calls, each at most once, and
\* prints at most one message.
C23_Terminates ==
    /\ []TerminalStates
    /\ [](\A p \in procs : ~Terminal(p) => ENABLED Step(p))
    /\ <>[](\A p \in procs : Terminal(p))

\* A remove that was refused for its missing marker has ended.
C23_Witness ==
    \E p \in procs :
        /\ pc[p] = "exit"
        /\ cmd[p] = "remove_chroot_2_2"
        /\ out[p] = <<"not a chroot environment">>
        /\ calls[p] = <<"access">>
        /\ ~ENABLED Step(p)

(***************************************************************************)
(* C24.  An enter command without a trailing command.                      *)
(***************************************************************************)
BareEnter(p) ==
    argc[p] = 3 /\ argv[p][1] \in {"chroot_2_2", "chroot_2_3"}

ExtractShape(p) ==
    argc[p] = 5 /\ argv[p][1] \in {"extract_tar_2_2", "extract_tar_2_3"}

\* C25: an extract-archive invocation with five arguments whose marker is
\* missing (or unreadable) and whose archive kind is none of tar, tar.gz,
\* tar.bz2 ends with the message "not a chroot environment", never with
\* "wrong tararg argument"; and "wrong tararg argument" is printed only
\* after the access check has been made and has succeeded.
C25_MarkerBeforeKind ==
    \A p \in procs :
        ExtractShape(p) =>
            /\ (~MarkerReadable(p) /\ argv[p][3] \notin {"tar", "tar.gz", "tar.bz2"})
                  => /\ "wrong tararg argument" \notin Range(out[p])
                     /\ pc[p] = "exit" => out[p] = <<"not a chroot environment">>
            /\ "wrong tararg argument" \in Range(out[p])
                  => /\ calls[p] = <<"access">>
                     /\ out[p] = <<"wrong tararg argument">>
                     /\ access_R_OK(p, name[p])

(***************************************************************************)
(* The pipeline caller -> relay -> broker: the relay's execvp starts the   *)
(* program installed as E2_ROOT_TOOL_PATH, here the setuid broker, with    *)
(* the vector the relay built, the identity the relay set and the          *)
(* environment the relay left alone.                                       *)
(***************************************************************************)
PipeDirs == {"/srv/b1", LongDir(PATH_MAX - 1)}

\* What the caller types after the relay's name.
PipeRequests ==
    { <<>>, <<"-x">>, <<"--", "chroot_2_2">>, <<"remove_chroot_2_2", "-rf">>,
      Fill(RELAY_SLOTS - 1), Fill(RELAY_SLOTS) } \cup
    UNION { { <<"chroot_2_3", d, "/bin/sh", "-c", "echo hi">>,
              <<"chroot_2_3", "-base", d, "-c">>,
              <<"chroot_2_2", d>>,
              <<"-v", "remove_chroot_2_3", "--force", d>>,
              <<"remove_chroot_2_2", d>>,
              <<"set_permissions_2_3", d>>,
              <<"set_permissions_2_3", "-d", d>>,
              <<"extract_tar_2_3", d, "tar.gz", "a.tgz">>,
              <<"extract_tar_2_3", d, "-tar", "a.tar">>,
              <<"extract_tar_2_2", d, "tar", "-a.tar">>,
              <<"extract_tar_2_2", "-rel", d, "tar", "a.tar">>,
              <<"extract_tar_2_3", "-rel", d, "tar">> } : d \in PipeDirs }

PipeArgvs == { ArgvOf(<<RELAY>> \o t) : t \in PipeRequests }

PipeMarkers == {"bare", "legacy", "current", "unreadable"}

InitPipe ==
    /\ procs = {1}
    /\ variant = "global"
    /\ \E d \in PipeDirs, ms \in PipeMarkers :
          /\ fs = MkFs(d, ms)
          /\ argv \in [procs -> { a \in PipeArgvs :
                                    \A i \in DOMAIN a :
                                        Len(a[i]) < PATH_MAX - 1 \/ a[i] = d }]
    /\ argc = [p \in procs |-> Cardinality(DOMAIN argv[p])]
    /\ request = argv
    /\ envp \in [procs -> { {"PATH=/usr/bin", "LD_PRELOAD=/tmp/evil.so"} }]
    /\ env = envp
    /\ caller \in [procs -> RelayCallers]
    /\ ident = caller
    /\ pc = [p \in procs |-> "relay_main"]
    /\ cmd = [p \in procs |-> UNSET]
    /\ base = [p \in procs |-> UNSET]
    /\ path = [p \in procs |-> UNSET]
    /\ name = [p \in procs |-> UNSET]
    /\ arg = [p \in procs |-> <<>>]
    /\ calls = [p \in procs |-> <<>>]
    /\ out = [p \in procs |-> <<>>]
    /\ exit_status = [p \in procs |-> {}]
    /\ image = [p \in procs |-> RELAY]
    /\ tool_argv = [p \in procs |-> <<>>]
    /\ execs = [p \in procs |-> <<>>]

\* int main(int argc, char *argv[]) of the broker, entered from the relay's
\* execvp(tool_path, arg): argv is the relay's vector, identity and
\* environment are inherited, the broker's own locals start fresh.
BrokerStart(p) ==
    /\ pc[p] = "tool"
    /\ image[p] = E2_ROOT_TOOL_PATH
    /\ argv' = [argv EXCEPT ![p] = ArgvOf(tool_argv[p])]
    /\ argc' = [argc EXCEPT ![p] = Len(tool_argv[p])]
    /\ image' = [image EXCEPT ![p] = SELF]
    /\ arg' = [arg EXCEPT ![p] = <<>>]
    /\ pc' = [pc EXCEPT ![p] = "main"]
    /\ UNCHANGED <<start, fs, env, ident, cmd, base, path, name, calls, out,
                   exit_status, tool_argv, execs>>

NextPipe ==
    \/ \E p \in procs : RelayMain(p)
    \/ \E p \in procs : RelayFilter(p)
    \/ \E p \in procs : RelaySetuid(p)
    \/ \E p \in procs : RelaySetgid(p)
    \/ \E p \in procs : RelaySetgroups(p)
    \/ \E p \in procs : RelayExecvp(p)
    \/ \E p \in procs : BrokerStart(p)
    \/ \E p \in procs : Main(p)
    \/ \E p \in procs : Dispatch(p)
    \/ \E p \in procs : Arity(p)
    \/ \E p \in procs : assert_chroot_environment(p)
    \/ \E p \in procs : assert_chroot_environment_2_3(p)
    \/ \E p \in procs : BuildChroot(p)
    \/ \E p \in procs : BuildExtractTar(p)
    \/ \E p \in procs : BuildSetPermissions(p)
    \/ \E p \in procs : BuildRemoveChroot(p)
    \/ \E p \in procs : Clearenv(p)
    \/ \E p \in procs : Setuid(p)
    \/ \E p \in procs : Setgid(p)
    \/ \E p \in procs : Setgroups(p)
    \/ \E p \in procs : Execv(p)

SpecPipe == InitPipe /\ [][NextPipe]_vars

\* The broker (not the relay, not a tool) is the running program.
InBroker(p) == image[p] = SELF /\ "execvp" \in Range(calls[p])

\* The broker's marker check has been made.
Checked(p) == InBroker(p) /\ name[p] # UNSET

\* C26: in the pipeline the relay's setuid(0), setgid(0) and
\* setgroups(0, NULL) come before its exec, so the broker runs, and makes
\* its marker access check, with real uid 0 and real gid 0: the check fails
\* exactly when the marker does not exist, whatever the original caller
\* may read.
C26_RootAtMarkerCheck ==
    \A p \in procs :
        /\ InBroker(p) =>
              /\ IsPrefix(<<"setuid", "setgid", "setgroups", "execvp">>, calls[p])
              /\ ident[p].ruid = 0
              /\ ident[p].rgid = 0
        /\ Checked(p) =>
              ("not a chroot environment" \in Range(out[p])
                  <=> name[p] \notin DOMAIN fs)

\* User 1000 reaches the broker through the relay; the marker is not
\* readable for that user, and the check has passed.
C26_Witness ==
    \E p \in procs :
        /\ Checked(p)
        /\ caller[p].ruid = 1000
        /\ name[p] \in DOMAIN fs
        /\ fs[name[p]] = "-"
        /\ pc[p] = "build"

\* The caller's arguments that do not begin with a dash, in order.
Kept(p) ==
    SelectSeq([i \in 1..(Cardinality(DOMAIN request[p]) - 1) |-> request[p][i]],
              NoDash)

\* The pipeline has ended in one of the broker's tools.
PipeTool(p) == pc[p] = "tool" /\ image[p] \in FourTools

\* A request for a command with exactly one dash-prefixed token, standing
\* where the path, or the archive kind or file of an extraction, would be.
DashShifted(p) ==
    LET n == Cardinality(DOMAIN request[p]) - 1
        dashed == {i \in 1..n : ~NoDash(request[p][i])}
    IN  /\ n >= 2
        /\ request[p][1] \in Commands
        /\ Cardinality(dashed) = 1
        /\ \/ dashed = {2}
           \/ IsExtractTar(request[p][1]) /\ dashed \subseteq {3, 4}

\* C27: relay and broker composed.  The broker is started with the tool
\* name and the caller's dash-free tokens moved up; a tool that is reached
\* gets its vector from those tokens only: the enter tool gets
\* [enter-tool, root, kept[3], ...], root being <base>/chroot in the
\* current layout, so "<base> /bin/sh -c X" arrives as
\* [enter-tool, <base>/chroot, /bin/sh, X].  A request whose path, archive
\* kind or archive file begins with a dash reaches the broker with one
\* argument fewer, and is either refused for its argument count (exit 99)
\* or read with the next token in the freed position.
C27_EndToEnd ==
    \A p \in procs :
        LET kept == Kept(p)
            n == Len(kept)
            root == IF kept[1] \in Legacy THEN kept[2] ELSE path[p]
            v == tool_argv[p]
        IN  /\ PipeTool(p) =>
                  /\ argv[p] = ArgvOf(<<tool_name>> \o kept)
                  /\ image[p] = ToolOf(kept[1])
                  /\ v[PathSlot(kept[1])] = root
                  /\ kept[1] \in Current => root = kept[2] \o "/chroot"
                  /\ IsChroot(kept[1]) =>
                        /\ v = <<basename(chroot_tool), root>> \o SubSeq(kept, 3, n)
                        /\ \A i \in 1..Len(v) : NoDash(v[i])
                  /\ IsExtractTar(kept[1]) =>
                        /\ n = 4
                        /\ kept[3] \in TarTypes
                        /\ v[Len(v)] = kept[4]
                  /\ (IsSetPermissions(kept[1]) \/ IsRemoveChroot(kept[1])) =>
                        n = 2
            /\ (DashShifted(p) /\ InBroker(p)) =>
                  /\ argc[p] = Cardinality(DOMAIN request[p]) - 1
                  /\ argv[p] = ArgvOf(<<tool_name>> \o kept)
                  /\ pc[p] \notin {"main", "dispatch", "arity"} =>
                        \/ /\ pc[p] = "exit"
                           /\ exit_status[p] = {99}
                           /\ Last(out[p]) \in {"too few arguments",
                                                "wrong number of arguments"}
                        \/ /\ n >= 2
                           /\ kept[2] =
                                IF cmd[p] \in Legacy THEN path[p] ELSE base[p]

\* The slots of arg[] the relay has written.
Written(p) == IF image[p] = RELAY THEN DOMAIN arg[p] ELSE {}

\* C28: every store of the relay into arg[], the terminator included, has
\* an index between 0 and RELAY_SLOTS - 1: the tool name, the kept tokens
\* and the terminator are never more than RELAY_SLOTS, and no run of the
\* relay ends in undefined behaviour.
C28_RelayBufferInBounds ==
    \A p \in procs :
        /\ \A s \in Written(p) : 0 <= s /\ s <= RELAY_SLOTS - 1
        /\ RelayBuilt(p) =>
              Len(RelayLoop(request[p], 1, argc[p] - 1)) + 2 <= RELAY_SLOTS
        /\ pc[p] # "killed"

\* C29: whatever the length of the caller-given path or base, the name
\* handed to access() is that path followed by the whole marker suffix,
\* the current-layout operational path is the base followed by "/chroot",
\* and a started tool operates on the directory whose marker was checked.
C29_NoTruncation ==
    \A p \in procs :
        /\ name[p] # UNSET =>
              name[p] = argv[p][2] \o MarkerSuffix(cmd[p])
        /\ (cmd[p] \in Current /\ path[p] # UNSET) =>
              path[p] = argv[p][2] \o "/chroot"
        /\ (pc[p] = "tool" /\ cmd[p] \in Commands) =>
              \E d \in {argv[p][2]} :
                  /\ name[p] = d \o MarkerSuffix(cmd[p])
                  /\ tool_argv[p][PathSlot(cmd[p])] =
                       IF cmd[p] \in Legacy THEN d ELSE d \o "/chroot"

\* C30: the relay's exit codes are 1 and 3, never 99.  Without arguments
\* (argc < 2) it exits 1 before any call, identity change or exec; a
\* failed setuid, setgid or setgroups exits 1 and no exec is made; a failed
\* execvp exits 3.  The environment is never touched: what the relay
\* starts is started with the caller's environment.
C30_RelayExitCodes ==
    \A p \in procs :
        /\ exit_status[p] \subseteq {1, 3}
        /\ env[p] = envp[p]
        /\ argc[p] < 2 =>
              /\ pc[p] \in {"relay_main", "exit"}
              /\ pc[p] = "exit" => exit_status[p] = {1}
              /\ calls[p] = <<>>
              /\ ident[p] = caller[p]
              /\ execs[p] = <<>>
        /\ (pc[p] = "exit" /\ argc[p] >= 2) =>
              /\ image[p] = RELAY
              /\ Last(calls[p]) \in {"setuid", "setgid", "setgroups", "execvp"}
              /\ Last(calls[p]) = "execvp" <=> exit_status[p] = {3}
              /\ Last(calls[p]) # "execvp" <=> exit_status[p] = {1}
              /\ exit_status[p] = {1} => execs[p] = <<>>
        /\ pc[p] = "tool" =>
              /\ image[p] = E2_ROOT_TOOL_PATH
              /\ exit_status[p] = {}

\* The exec of the broker has failed: exit 3, environment as given.
C30_Witness ==
    \E p \in procs :
        /\ pc[p] = "exit"
        /\ exit_status[p] = {3}
        /\ execs[p] = <<E2_ROOT_TOOL_PATH>>
        /\ "PATH=/usr/bin" \in env[p]

====
